---- MODULE Spec2Model ----
(***************************************************************************)
(* Model of add_country_grouping.py: the load -> group -> report -> save   *)
(* pipeline of main(), the per-AS grouping of group_peers_by_country() and *)
(* the corpus statistics of generate_statistics().                        *)
(*                                                                         *)
(* A Python dict is a sequence of entries in insertion order.  A JSON      *)
(* value that is not an object where the code expects one has kind         *)
(* "other".  A Python value used as a country key is tagged: PyStr(s) is   *)
(* the string s, PyNone is None.                                           *)
(***************************************************************************)
EXTENDS Integers, Sequences, FiniteSets, TLC

VARIABLES
    infile,      \* contents of INPUT_FILE
    outfile,     \* contents of OUTPUT_FILE
    out_before,  \* contents of OUTPUT_FILE when the current run started
    doc,         \* enriched_data, the document held in memory
    stats,       \* what generate_statistics computed and printed
    pc,          \* position of main()
    err,         \* the exception that ended the run, "none" while it runs
    runs         \* number of the current run of the script

vars == <<infile, outfile, out_before, doc, stats, pc, err, runs>>

\* ------------------------------------------------------------- bounds ----
MaxLinks == 4
MaxAS == 2
MaxRuns == 2
PadCountries == 14

\* ------------------------------------------------------ python values ----
PyStr(s) == [t |-> "str", s |-> s]
PyNone == [t |-> "none", s |-> ""]

TopN == 15

Min(a, b) == IF a < b THEN a ELSE b

\* ------------------------------------------------------------- links -----
MkLink(peer_as, has, c) ==
    [kind |-> "dict", peer_as |-> peer_as, has_peer_country |-> has, peer_country |-> c]

\* a `links` element that is not a JSON object (a string, a number)
NotALink ==
    [kind |-> "other", peer_as |-> "", has_peer_country |-> FALSE, peer_country |-> PyNone]

\* link.get('peer_country', 'Unknown')
LinkGet(link) ==
    IF link.has_peer_country THEN link.peer_country ELSE PyStr("Unknown")

\* ------------------------------------------------- country_groups --------
\* country_groups is a defaultdict(list): a sequence of [country, peers]
\* in the order in which the keys were first inserted.
HasCountry(groups, c) == \E i \in 1..Len(groups) : groups[i].country = c

\* a bug: country_groups[peer_country] = [link]
AssignToGroup(groups, c, link) ==
    IF HasCountry(groups, c)
    THEN [i \in 1..Len(groups) |->
            IF groups[i].country = c
            THEN [groups[i] EXCEPT !.peers = <<link>>]
            ELSE groups[i]]
    ELSE Append(groups, [country |-> c, peers |-> <<link>>])

\* country_groups[peer_country].append(link)
AppendToGroup(groups, c, link) ==
    IF HasCountry(groups, c)
    THEN [i \in 1..Len(groups) |->
            IF groups[i].country = c
            THEN [groups[i] EXCEPT !.peers = Append(@, link)]
            ELSE groups[i]]
    ELSE Append(groups, [country |-> c, peers |-> <<link>>])

\* the loop over data.get('links', []): ok is FALSE when link.get raised
RECURSIVE ScanLinks(_, _)
ScanLinks(links, groups) ==
    IF links = <<>> THEN [ok |-> TRUE, groups |-> groups]
    ELSE LET link == Head(links) IN
         IF link.kind # "dict" THEN [ok |-> FALSE, groups |-> groups]
         ELSE ScanLinks(Tail(links), AppendToGroup(groups, LinkGet(link), link))

\* ------------------------------------------------------------ sorted -----
\* sorted(items, key=..., reverse=True) on a sequence of [key, item]:
\* descending by key, elements with equal keys keep their original order.
RECURSIVE InsertDesc(_, _)
InsertDesc(sorted, x) ==
    IF sorted = <<>> THEN <<x>>
    ELSE IF Head(sorted).key >= x.key
         THEN <<Head(sorted)>> \o InsertDesc(Tail(sorted), x)
         ELSE <<x>> \o sorted

RECURSIVE InsertAsc(_, _)
InsertAsc(sorted, x) ==
    IF sorted = <<>> THEN <<x>>
    ELSE IF Head(sorted).key <= x.key
         THEN <<Head(sorted)>> \o InsertAsc(Tail(sorted), x)
         ELSE <<x>> \o sorted

RECURSIVE SortAsc(_, _)
SortAsc(keyed, acc) ==
    IF keyed = <<>> THEN acc
    ELSE SortAsc(Tail(keyed), InsertAsc(acc, Head(keyed)))

RECURSIVE SortDesc(_, _)
SortDesc(keyed, acc) ==
    IF keyed = <<>> THEN acc
    ELSE SortDesc(Tail(keyed), InsertDesc(acc, Head(keyed)))

\* a bug: reverse=True left out
PySortedForward(keyed) == SortAsc(keyed, <<>>)

PySortedReverse(keyed) == SortDesc(keyed, <<>>)

\* sorted(country_groups.items(), key=lambda x: len(x[1]), reverse=True)
SortedCountries(groups) ==
    LET keyed == [i \in 1..Len(groups) |->
                    [key |-> Len(groups[i].peers), item |-> groups[i]]]
        s == PySortedReverse(keyed)
    IN [i \in 1..Len(s) |-> s[i].item]

\* ------------------------------------------------------- AS records ------
MkRecord(asn, as_info, has_links, links, has_grouped, grouped) ==
    [kind |-> "dict", asn |-> asn, as_info |-> as_info,
     has_links |-> has_links, links |-> links,
     has_grouped |-> has_grouped, grouped |-> grouped]

\* an AS value that is not a JSON object (a number, a string)
NotARecord ==
    [kind |-> "other", asn |-> "", as_info |-> "", has_links |-> FALSE,
     links |-> <<>>, has_grouped |-> FALSE, grouped |-> <<>>]

\* data.get('links', [])
DataGetLinks(data) == IF data.has_links THEN data.links ELSE <<>>

\* a bug: the buckets start from the grouped_by_country already present
StaleCountryGroups(data) ==
    IF data.has_grouped
    THEN [i \in 1..Len(data.grouped) |->
            [country |-> data.grouped[i].country, peers |-> data.grouped[i].peers]]
    ELSE <<>>

\* country_groups = defaultdict(list)
NewCountryGroups(data) == <<>>

\* a bug: 'count': len(data['links'])
CountOfLinks(data, peers) == Len(DataGetLinks(data))

\* 'count': len(peers)
CountOf(data, peers) == Len(peers)

\* a bug: data.pop('links', []) instead of data.get('links', [])
GroupedRecordPop(data, sorted_countries) ==
    [data EXCEPT !.has_links = FALSE,
                 !.links = <<>>,
                 !.has_grouped = TRUE,
                 !.grouped = [i \in 1..Len(sorted_countries) |->
                     [country |-> sorted_countries[i].country,
                      count |-> CountOf(data, sorted_countries[i].peers),
                      peers |-> sorted_countries[i].peers]]]

\* data['grouped_by_country'] = {} and the loop that fills it
GroupedRecord(data, sorted_countries) ==
    [data EXCEPT !.has_grouped = TRUE,
                 !.grouped = [i \in 1..Len(sorted_countries) |->
                     [country |-> sorted_countries[i].country,
                      count |-> CountOf(data, sorted_countries[i].peers),
                      peers |-> sorted_countries[i].peers]]]

\* the body of the loop over enriched_data.items(), from entry i on;
\* an AttributeError leaves the entries before i augmented
RECURSIVE GroupEntries(_, _)
GroupEntries(entries, i) ==
    IF i > Len(entries) THEN [entries |-> entries, err |-> "none"]
    ELSE LET data == entries[i].val IN
         IF data.kind # "dict" THEN [entries |-> entries, err |-> "AttributeError"]
         ELSE LET scan == ScanLinks(DataGetLinks(data), NewCountryGroups(data)) IN
              IF ~scan.ok THEN [entries |-> entries, err |-> "AttributeError"]
              ELSE GroupEntries(
                     [entries EXCEPT ![i].val =
                         GroupedRecord(data, SortedCountries(scan.groups))],
                     i + 1)

\* group_peers_by_country(enriched_data): the document after the call
\* (it is mutated in place) and the exception raised, if any
group_peers_by_country(d) ==
    IF d.kind # "dict" THEN [doc |-> d, err |-> "AttributeError"]
    ELSE LET r == GroupEntries(d.entries, 1)
         IN [doc |-> [d EXCEPT !.entries = r.entries], err |-> r.err]

\* ------------------------------------------------ generate_statistics ----
\* country_peer_counts is a defaultdict(int): a sequence of [country, n]
\* in the order in which the keys were first inserted.
HasCount(counts, c) == \E i \in 1..Len(counts) : counts[i].country = c

\* a bug: country_peer_counts[country] = group['count']
SetCount(counts, c, n) ==
    IF HasCount(counts, c)
    THEN [i \in 1..Len(counts) |->
            IF counts[i].country = c THEN [counts[i] EXCEPT !.n = n] ELSE counts[i]]
    ELSE Append(counts, [country |-> c, n |-> n])

\* country_peer_counts[country] += group['count']
AddCount(counts, c, n) ==
    IF HasCount(counts, c)
    THEN [i \in 1..Len(counts) |->
            IF counts[i].country = c THEN [counts[i] EXCEPT !.n = @ + n] ELSE counts[i]]
    ELSE Append(counts, [country |-> c, n |-> 0 + n])

\* data.get('grouped_by_country', {})
DataGetGrouped(data) == IF data.has_grouped THEN data.grouped ELSE <<>>

\* the loop over the items of one record's grouped_by_country
RECURSIVE CountGroups(_, _)
CountGroups(grouped, acc) ==
    IF grouped = <<>> THEN acc
    ELSE CountGroups(Tail(grouped),
            [seen |-> acc.seen \cup {Head(grouped).country},
             counts |-> AddCount(acc.counts, Head(grouped).country, Head(grouped).count)])

\* the loop over enriched_data.values()
RECURSIVE CountRecords(_, _)
CountRecords(entries, acc) ==
    IF entries = <<>> THEN acc
    ELSE CountRecords(Tail(entries), CountGroups(DataGetGrouped(Head(entries).val), acc))

\* a bug: the slice [:14]
TopSliceShort(s) == SubSeq(s, 1, Min(TopN - 1, Len(s)))

\* the slice [:15]
TopSlice(s) == SubSeq(s, 1, Min(TopN, Len(s)))

\* sorted(country_peer_counts.items(), key=lambda x: x[1], reverse=True)[:15]
TopCountries(counts) ==
    LET keyed == [i \in 1..Len(counts) |-> [key |-> counts[i].n, item |-> counts[i]]]
        s == PySortedReverse(keyed)
    IN TopSlice([i \in 1..Len(s) |-> s[i].item])

NoStats ==
    [total_ases |-> 0, total_countries |-> {}, country_peer_counts |-> <<>>,
     top_countries |-> <<>>]

\* generate_statistics(enriched_data): the values it computes and prints
generate_statistics(d) ==
    LET acc == CountRecords(d.entries, [seen |-> {}, counts |-> <<>>])
    IN [total_ases |-> Len(d.entries),
        total_countries |-> acc.seen,
        country_peer_counts |-> acc.counts,
        top_countries |-> TopCountries(acc.counts)]

\* ------------------------------------------------------------- json ------
EmptyDoc == [kind |-> "dict", entries |-> <<>>]

\* json.dump writes a dict key that is None as the string "null"
JsonKey(c) == IF c.t = "none" THEN PyStr("null") ELSE c

JsonDumpRecord(data) ==
    [data EXCEPT !.grouped = [i \in 1..Len(data.grouped) |->
                                [data.grouped[i] EXCEPT !.country = JsonKey(@)]]]

\* json.dump(enriched_data, f, indent=2, ensure_ascii=False): the JSON text
\* as the structure it denotes
JsonDump(d) ==
    [d EXCEPT !.entries = [i \in 1..Len(d.entries) |->
                             [d.entries[i] EXCEPT !.val = JsonDumpRecord(@)]]]

\* a JSON object that repeats a key loads as a dict holding the key once,
\* at its first position, with the last value
RECURSIVE LoadObject(_, _)
LoadObject(items, acc) ==
    IF items = <<>> THEN acc
    ELSE LET x == Head(items) IN
         LoadObject(Tail(items),
            IF \E i \in 1..Len(acc) : acc[i].country = x.country
            THEN [i \in 1..Len(acc) |-> IF acc[i].country = x.country THEN x ELSE acc[i]]
            ELSE Append(acc, x))

\* json.load(f)
JsonLoad(text) ==
    [text EXCEPT !.entries = [i \in 1..Len(text.entries) |->
        [text.entries[i] EXCEPT !.val.grouped = LoadObject(@, <<>>)]]]

\* a string with a lone surrogate loads from "\ud800" but cannot be
\* written to a file opened with encoding='utf-8'
LoneSurrogate == "{\"name\": \"\\ud800\"}"

Encodable(d) == \A i \in 1..Len(d.entries) : d.entries[i].val.as_info # LoneSurrogate

MissingFile == [kind |-> "missing", doc |-> EmptyDoc]
GarbageFile == [kind |-> "garbage", doc |-> EmptyDoc]
OldFile == [kind |-> "old", doc |-> EmptyDoc]
PartialFile == [kind |-> "partial", doc |-> EmptyDoc]
JsonFile(d) == [kind |-> "json", doc |-> d]

\* ------------------------------------------------------ input documents --
\* the forms of a link: no peer_country key, peer_country null, a country
\* name, or an element that is not an object
LinkKinds == {"missing", "null", "Chile", "Peru", "other"}

PeerNames == <<"101", "102", "103", "104", "105", "106", "107", "108">>

\* link j of the document, in the form kind
LinkOf(j, kind) ==
    CASE kind = "missing" -> MkLink(PeerNames[j], FALSE, PyNone)
      [] kind = "null" -> MkLink(PeerNames[j], TRUE, PyNone)
      [] kind = "other" -> NotALink
      [] OTHER -> MkLink(PeerNames[j], TRUE, PyStr(kind))

ASKeys == <<"64500", "64501", "64502", "64503">>

\* a grouped_by_country left in the input by some other producer
StaleGrouped ==
    << [country |-> PyStr("Peru"), count |-> 7,
        peers |-> <<MkLink("9", TRUE, PyStr("Peru"))>>] >>

\* the forms of an AS value: a record, a record that already carries a
\* grouped_by_country, a record whose as_info cannot be encoded, a record
\* without the links key, a value that is not an object
Shapes == {"record", "stale", "surrogate", "nolinks", "other"}

ShapeOK(i, shape, l) ==
    \/ shape = "record"
    \/ shape \in {"stale", "surrogate"} /\ i = 1
    \/ shape \in {"nolinks", "other"} /\ l = <<>>

RecordOf(i, shape, l) ==
    CASE shape = "record" -> MkRecord(ASKeys[i], "{}", TRUE, l, FALSE, <<>>)
      [] shape = "stale" -> MkRecord(ASKeys[i], "{}", TRUE, l, TRUE, StaleGrouped)
      [] shape = "surrogate" -> MkRecord(ASKeys[i], LoneSurrogate, TRUE, l, FALSE, <<>>)
      [] shape = "nolinks" -> MkRecord(ASKeys[i], "{}", FALSE, <<>>, FALSE, <<>>)
      [] OTHER -> NotARecord

\* the links of AS i, when link j of the document belongs to AS place[j]
LinksAt(place, links, i) ==
    LET Mine(j) == place[j] = i
        idx == SelectSeq([j \in 1..Len(links) |-> j], Mine)
    IN [m \in 1..Len(idx) |-> links[idx[m]]]

Nondecreasing(place) ==
    \A j \in 1..(Len(place) - 1) : place[j] <= place[j + 1]

\* the document of k ASes holding the links, AS i in the form shape[i]
DocOf(k, shape, place, links) ==
    [kind |-> "dict",
     entries |-> [i \in 1..k |->
                    [key |-> ASKeys[i],
                     val |-> RecordOf(i, shape[i], LinksAt(place, links, i))]]]

\* ------------------------------------------------------------- main ------
\* INPUT_FILE is missing, is not JSON, holds a JSON list, holds a document
\* of at most MaxAS ASes and MaxLinks links, or holds such a document as an
\* earlier run of the script wrote it
Init ==
    /\ \/ infile \in { MissingFile, GarbageFile,
                       JsonFile([kind |-> "list", entries |-> <<>>]) }
       \/ \E k \in 0..MaxAS, n \in 0..MaxLinks :
            \E place \in [1..n -> 1..k] :
              /\ Nondecreasing(place)
              /\ \E shape \in [1..k -> Shapes] :
                   /\ \A i \in 1..k : ShapeOK(i, shape[i], LinksAt(place, place, i))
                   /\ \E kinds \in [1..n -> LinkKinds], written \in BOOLEAN :
                        LET links == [j \in 1..n |-> LinkOf(j, kinds[j])]
                            d == DocOf(k, shape, place, links)
                            r == group_peers_by_country(JsonLoad(d))
                        IN IF written
                           THEN /\ r.err = "none"
                                /\ infile = JsonFile(JsonDump(r.doc))
                           ELSE infile = JsonFile(d)
    /\ outfile = OldFile
    /\ out_before = OldFile
    /\ doc = EmptyDoc
    /\ stats = NoStats
    /\ pc = "start"
    /\ err = "none"
    /\ runs = 1

\* with open(INPUT_FILE, 'r', encoding='utf-8') as f: json.load(f)
Load ==
    /\ pc = "start"
    /\ IF infile.kind = "missing"
       THEN pc' = "failed" /\ err' = "FileNotFoundError" /\ doc' = doc
       ELSE IF infile.kind # "json"
       THEN pc' = "failed" /\ err' = "JSONDecodeError" /\ doc' = doc
       ELSE pc' = "loaded" /\ err' = err /\ doc' = JsonLoad(infile.doc)
    /\ UNCHANGED <<infile, outfile, out_before, stats, runs>>

\* enriched_data = group_peers_by_country(enriched_data)
Group ==
    /\ pc = "loaded"
    /\ LET r == group_peers_by_country(doc) IN
        /\ doc' = r.doc
        /\ err' = r.err
        /\ pc' = IF r.err = "none" THEN "grouped" ELSE "failed"
    /\ UNCHANGED <<infile, outfile, out_before, stats, runs>>

\* generate_statistics(enriched_data)
Statistics ==
    /\ pc = "grouped"
    /\ stats' = generate_statistics(doc)
    /\ pc' = "reported"
    /\ UNCHANGED <<infile, outfile, out_before, doc, err, runs>>

\* with open(OUTPUT_FILE, 'w', encoding='utf-8') as f: json.dump(...)
\* open() truncates the file; the write can fail after that.  When the
\* file cannot be written, the OSError raised on leaving the with block
\* also replaces a UnicodeEncodeError of json.dump.
Save ==
    /\ pc = "reported"
    /\ \E io \in {"ok", "open_fails", "write_fails"} :
        IF io = "open_fails"
        THEN outfile' = outfile /\ err' = "OSError" /\ pc' = "failed"
        ELSE IF io = "write_fails"
        THEN outfile' = PartialFile /\ err' = "OSError" /\ pc' = "failed"
        ELSE IF ~Encodable(doc)
        THEN outfile' = PartialFile /\ err' = "UnicodeEncodeError" /\ pc' = "failed"
        ELSE outfile' = JsonFile(JsonDump(doc)) /\ err' = err /\ pc' = "saved"
    /\ UNCHANGED <<infile, out_before, doc, stats, runs>>

\* the script is started again, after a run that saved or failed; it reads
\* INPUT_FILE again and finds OUTPUT_FILE as the last run left it
Rerun ==
    /\ pc \in {"saved", "failed"}
    /\ runs < MaxRuns
    /\ out_before' = outfile
    /\ doc' = EmptyDoc
    /\ stats' = NoStats
    /\ pc' = "start"
    /\ err' = "none"
    /\ runs' = runs + 1
    /\ UNCHANGED <<infile, outfile>>

Next == Load \/ Group \/ Statistics \/ Save \/ Rerun

Spec == Init /\ [][Next]_vars

\* --------------------------------------------- the functions on their own --
\* generate_statistics called on a document in which only some records
\* carry grouped_by_country, and which may hold more than 15 countries.
PadNames ==
    << "P01", "P02", "P03", "P04", "P05", "P06", "P07", "P08",
       "P09", "P10", "P11", "P12", "P13", "P14", "P15", "P16" >>

\* the result of the grouping loop body on one well-formed record
GroupOne(data) ==
    GroupedRecord(data,
        SortedCountries(ScanLinks(DataGetLinks(data), NewCountryGroups(data)).groups))

\* an AS with one link to each of PadCountries further countries, grouped
PadEntry ==
    [key |-> "64999",
     val |-> GroupOne(MkRecord("64999", "{}", TRUE,
                [i \in 1..PadCountries |-> MkLink(PadNames[i], TRUE, PyStr(PadNames[i]))],
                FALSE, <<>>))]

\* the document made of the entries es, those chosen by mask grouped,
\* and the padding AS before or after them
StatDoc(pad, es, mask) ==
    [kind |-> "dict",
     entries |-> (IF pad = "first" THEN <<PadEntry>> ELSE <<>>)
                 \o [i \in 1..Len(es) |->
                       IF mask[i] THEN [es[i] EXCEPT !.val = GroupOne(@)] ELSE es[i]]
                 \o (IF pad = "last" THEN <<PadEntry>> ELSE <<>>)]

InitStats ==
    /\ \E k \in 1..MaxAS, n \in 0..MaxLinks :
         \E place \in [1..n -> 1..k] :
           /\ Nondecreasing(place)
           /\ \E shape \in [1..k -> {"record", "stale"}] :
                /\ \A i \in 1..k : ShapeOK(i, shape[i], LinksAt(place, place, i))
                /\ \E kinds \in [1..n -> LinkKinds \ {"other"}] :
                     \E mask \in [1..k -> BOOLEAN], pad \in {"none", "first", "last"} :
                       /\ pad # "none" => \A i \in 1..k : mask[i]
                       /\ doc = StatDoc(pad,
                               DocOf(k, shape, place,
                                     [j \in 1..n |-> LinkOf(j, kinds[j])]).entries,
                               mask)
    /\ infile = MissingFile
    /\ outfile = OldFile
    /\ out_before = OldFile
    /\ stats = NoStats
    /\ pc = "lib"
    /\ err = "none"
    /\ runs = 1

\* generate_statistics(enriched_data), called on its own
CallStatistics ==
    /\ pc = "lib"
    /\ stats' = generate_statistics(doc)
    /\ pc' = "lib_done"
    /\ UNCHANGED <<infile, outfile, out_before, doc, err, runs>>

NextStats == CallStatistics

SpecStats == InitStats /\ [][NextStats]_vars

\* ------------------------------------------------------- properties ------
\* the document as main() loaded it in the current run
Loaded == JsonLoad(infile.doc)

\* group_peers_by_country has returned in the current run
Grouped ==
    \/ pc \in {"grouped", "reported", "saved"}
    \/ pc = "failed" /\ err \in {"OSError", "UnicodeEncodeError"}

\* number of occurrences of x in the sequence s
Occ(s, x) == Cardinality({ i \in 1..Len(s) : s[i] = x })

RECURSIVE SumOf(_)
SumOf(s) == IF s = <<>> THEN 0 ELSE Head(s) + SumOf(Tail(s))

Range(s) == { s[i] : i \in 1..Len(s) }

\* every link value found in the links or in some peers list of a record
LinksOf(orig, data) ==
    Range(DataGetLinks(orig))
    \cup UNION { Range(data.grouped[g].peers) : g \in 1..Len(data.grouped) }

\* C1: after group_peers_by_country, in every AS record each link occurs in
\* the peers lists of grouped_by_country, taken together, exactly as often
\* as in the record's links, and under one country only.
Completeness ==
    Grouped =>
      \A i \in 1..Len(doc.entries) :
        LET data == doc.entries[i].val
            orig == Loaded.entries[i].val
        IN /\ data.has_grouped
           /\ \A x \in LinksOf(orig, data) :
                /\ SumOf([g \in 1..Len(data.grouped) |-> Occ(data.grouped[g].peers, x)])
                     = Occ(DataGetLinks(orig), x)
                /\ Cardinality({ g \in 1..Len(data.grouped) :
                                   Occ(data.grouped[g].peers, x) > 0 }) <= 1

\* a record of four links spread over two countries, two links each
CompletenessWitness ==
    /\ pc = "grouped"
    /\ \E i \in 1..Len(doc.entries) :
         LET data == doc.entries[i].val IN
           /\ Len(data.links) = 4
           /\ Len(data.grouped) = 2
           /\ Len(data.grouped[2].peers) = 2

\* position of the first link of the country c in links
FirstSeen(links, c) ==
    CHOOSE j \in 1..Len(links) :
        /\ LinkGet(links[j]) = c
        /\ \A m \in 1..(j - 1) : LinkGet(links[m]) # c

\* C2: after group_peers_by_country, the entries of grouped_by_country are
\* in descending order of count, and entries of equal count are in the
\* order in which their countries first occur in links.
Ordering ==
    Grouped =>
      \A i \in 1..Len(doc.entries) :
        LET data == doc.entries[i].val
            links == DataGetLinks(Loaded.entries[i].val)
        IN \A g, h \in 1..Len(data.grouped) :
             g < h =>
               \/ data.grouped[g].count > data.grouped[h].count
               \/ /\ data.grouped[g].count = data.grouped[h].count
                  /\ FirstSeen(links, data.grouped[g].country)
                       < FirstSeen(links, data.grouped[h].country)

\* links of Peru, of Chile and two of a third country: the third country
\* comes first, then Peru and Chile, which tie, in the order of the links
OrderingWitness ==
    /\ pc = "grouped"
    /\ \E i \in 1..Len(doc.entries) :
         LET g == doc.entries[i].val.grouped
             l == doc.entries[i].val.links
         IN /\ Len(g) = 3
            /\ g[1].count = 2
            /\ g[2].country = PyStr("Peru")
            /\ g[3].country = PyStr("Chile")
            /\ LinkGet(l[1]) = PyStr("Peru")
            /\ LinkGet(l[2]) = PyStr("Chile")

\* C3: whenever group_peers_by_country has returned, in a first or a later
\* run, on a fresh document or on one that a run of the script wrote, every
\* country group has count = len(peers).
CountConsistency ==
    Grouped =>
      \A i \in 1..Len(doc.entries) :
        \A g \in 1..Len(doc.entries[i].val.grouped) :
            doc.entries[i].val.grouped[g].count = Len(doc.entries[i].val.grouped[g].peers)

\* a second run, on a document that the script wrote, with a group of two
\* links next to a group of one
CountConsistencyWitness ==
    /\ runs = 2
    /\ pc = "grouped"
    /\ \E i \in 1..Len(doc.entries) :
         LET g == doc.entries[i].val.grouped IN
           /\ Loaded.entries[i].val.grouped = JsonDumpRecord(doc.entries[i].val).grouped
           /\ Len(g) = 2
           /\ g[1].count = 2
           /\ g[2].count = 1

\* the link has no peer_country: the key is missing or its value is null
Absent(link) == ~link.has_peer_country \/ link.peer_country = PyNone

\* the countries under which the link x is found in grouped
CountriesOf(grouped, x) ==
    { grouped[g].country : g \in { h \in 1..Len(grouped) : Occ(grouped[h].peers, x) > 0 } }

\* C4: after group_peers_by_country, every link without a peer_country (key
\* missing or value null) is under "Unknown" and nowhere else, and every
\* link with a peer_country string is under that string.
UnknownHandling ==
    Grouped =>
      \A i \in 1..Len(doc.entries) :
        LET data == doc.entries[i].val IN
          \A x \in Range(DataGetLinks(data)) :
            CountriesOf(data.grouped, x) =
              { IF Absent(x) THEN PyStr("Unknown") ELSE x.peer_country }

\* C5: group_peers_by_country changes nothing but grouped_by_country: the
\* AS keys and their order, and asn, as_info and links of every record, are
\* as loaded, and every link in a peers list is a link of the record's links.
Passthrough ==
    (pc # "start" /\ infile.kind = "json") =>
      /\ doc.kind = Loaded.kind
      /\ Len(doc.entries) = Len(Loaded.entries)
      /\ \A i \in 1..Len(doc.entries) :
           LET data == doc.entries[i].val
               orig == Loaded.entries[i].val
           IN /\ doc.entries[i].key = Loaded.entries[i].key
              /\ data.kind = orig.kind
              /\ data.asn = orig.asn
              /\ data.as_info = orig.as_info
              /\ data.has_links = orig.has_links
              /\ data.links = orig.links
              /\ Grouped =>
                   \A g \in 1..Len(data.grouped) :
                       Range(data.grouped[g].peers) \subseteq Range(orig.links)

\* two grouped records, the first with three links and a grouped_by_country
\* of its own in the input
PassthroughWitness ==
    /\ pc = "grouped"
    /\ Len(doc.entries) = 2
    /\ Loaded.entries[1].val.has_grouped
    /\ Len(doc.entries[1].val.links) = 2
    /\ Len(doc.entries[2].val.links) = 1

\* the document without any grouped_by_country
Strip(d) ==
    [d EXCEPT !.entries = [i \in 1..Len(d.entries) |->
        [d.entries[i] EXCEPT !.val.has_grouped = FALSE, !.val.grouped = <<>>]]]

\* the input file holds a document as group_peers_by_country and json.dump
\* leave it
InputIsOutput ==
    /\ infile.kind = "json"
    /\ group_peers_by_country(Strip(Loaded)).err = "none"
    /\ infile.doc = JsonDump(group_peers_by_country(Strip(Loaded)).doc)

\* C6: the grouped_by_country that group_peers_by_country leaves in a
\* record is the one it computes for the same document without that field,
\* and a run on a file that holds the output of the grouping writes the
\* same file again.
Idempotence ==
    /\ Grouped =>
         \A i \in 1..Len(doc.entries) :
             doc.entries[i].val.grouped =
                 group_peers_by_country(Strip(Loaded)).doc.entries[i].val.grouped
    /\ (pc = "saved" /\ InputIsOutput) => outfile = infile

\* a run has saved a document that came with the grouped_by_country of an
\* earlier grouping: two groups, one of them for a null country
IdempotenceWitness ==
    /\ pc = "saved"
    /\ InputIsOutput
    /\ \E i \in 1..Len(doc.entries) :
         /\ Len(doc.entries[i].val.grouped) = 2
         /\ \E g \in 1..2 : doc.entries[i].val.grouped[g].country = PyNone
         /\ \E g \in 1..2 : Loaded.entries[i].val.grouped[g].country = PyStr("null")

\* C9: a failed run leaves the output file as it was when the run started,
\* and the file differs from that only once the run has saved.
NoPartialOutput ==
    /\ pc = "failed" => outfile = out_before
    /\ outfile # out_before => pc = "saved"

\* C10: when group_peers_by_country fails on the shape of the document, no
\* AS record has been changed.
SchemaRejectedFirst ==
    (pc = "failed" /\ err = "AttributeError") =>
        \A i \in 1..Len(doc.entries) : doc.entries[i].val = Loaded.entries[i].val

\* ------------------------------------------ properties of the statistics --
\* the country names found in some record's grouped_by_country
Names(d) ==
    UNION { { d.entries[i].val.grouped[g].country :
                g \in 1..Len(d.entries[i].val.grouped) } :
            i \in { j \in 1..Len(d.entries) : d.entries[j].val.has_grouped } }

\* the count of the group of country c in the record, 0 without such a group
ContributionOf(data, c) ==
    IF data.has_grouped
    THEN SumOf([g \in 1..Len(data.grouped) |->
                  IF data.grouped[g].country = c THEN data.grouped[g].count ELSE 0])
    ELSE 0

Aggregate(d, c) ==
    SumOf([i \in 1..Len(d.entries) |-> ContributionOf(d.entries[i].val, c)])

\* C7: the aggregate of a country is the sum of the counts of its groups
\* over the AS records that have one, a record without grouped_by_country
\* adds nothing, and the country total is the number of distinct names.
StatisticsAggregate ==
    pc = "lib_done" =>
      LET counts == stats.country_peer_counts IN
        /\ { counts[i].country : i \in 1..Len(counts) } = Names(doc)
        /\ \A i, j \in 1..Len(counts) : counts[i].country = counts[j].country => i = j
        /\ \A i \in 1..Len(counts) : counts[i].n = Aggregate(doc, counts[i].country)
        /\ Cardinality(stats.total_countries) = Cardinality(Names(doc))
        /\ stats.total_ases = Len(doc.entries)

\* Peru has 7 links in one AS and 1 in another, 8 in all, and a third AS
\* has no grouped_by_country
StatisticsAggregateWitness ==
    /\ pc = "lib_done"
    /\ \E i \in 1..Len(stats.country_peer_counts) :
         /\ stats.country_peer_counts[i] = [country |-> PyStr("Peru"), n |-> 8]
    /\ Cardinality({ i \in 1..Len(doc.entries) :
                       ContributionOf(doc.entries[i].val, PyStr("Peru")) > 0 }) = 2
    /\ Cardinality(stats.total_countries) > 1

\* the country names of the groups in the order generate_statistics meets them
RECURSIVE MetCountries(_)
MetCountries(entries) ==
    IF entries = <<>> THEN <<>>
    ELSE LET data == Head(entries).val IN
         (IF data.has_grouped
          THEN [g \in 1..Len(data.grouped) |-> data.grouped[g].country]
          ELSE <<>>) \o MetCountries(Tail(entries))

FirstMet(d, c) ==
    LET met == MetCountries(d.entries) IN
      CHOOSE j \in 1..Len(met) : met[j] = c /\ \A m \in 1..(j - 1) : met[m] # c

\* names in ascending order, as Python compares strings
NamesAscending ==
    << "Chile", "P01", "P02", "P03", "P04", "P05", "P06", "P07", "P08",
       "P09", "P10", "P11", "P12", "P13", "P14", "P15", "P16", "Peru",
       "Unknown", "null" >>

NameRank(c) == CHOOSE j \in 1..Len(NamesAscending) : NamesAscending[j] = c.s

AheadByFirstMet(x, y) ==
    \/ x.n > y.n
    \/ x.n = y.n /\ FirstMet(doc, x.country) < FirstMet(doc, y.country)

AheadByName(x, y) ==
    \/ x.n > y.n
    \/ x.n = y.n /\ NameRank(x.country) < NameRank(y.country)

\* the list holds min(15, countries) countries with their aggregates, each
\* entry ahead of the entries after it and of every country left out
TopIsSortedBy(Ahead(_, _)) ==
    LET top == stats.top_countries
        listed == { top[j].country : j \in 1..Len(top) }
    IN /\ Len(top) = Min(TopN, Cardinality(Names(doc)))
       /\ listed \subseteq Names(doc)
       /\ \A j \in 1..Len(top) : top[j].n = Aggregate(doc, top[j].country)
       /\ \A j, k \in 1..Len(top) : j < k => Ahead(top[j], top[k])
       /\ \A c \in Names(doc) \ listed :
            \A j \in 1..Len(top) :
                Ahead(top[j], [country |-> c, n |-> Aggregate(doc, c)])

\* C8, as claimed: the top-15 list is in descending order of aggregate
\* count, countries of equal count in ascending order of name.
TopFifteenByName ==
    (pc = "lib_done" /\ \A c \in Names(doc) : c.t = "str") =>
        TopIsSortedBy(AheadByName)

\* C8, amended: the top-15 list is in descending order of aggregate count,
\* countries of equal count in the order in which generate_statistics first
\* meets them (ASes in document order, groups in grouped_by_country order).
TopFifteenByFirstMet ==
    pc = "lib_done" => TopIsSortedBy(AheadByFirstMet)

\* more than 15 countries, the first with more links than the second, and
\* a country left out that has as many links as the last one listed
TopFifteenWitness ==
    /\ pc = "lib_done"
    /\ Len(stats.country_peer_counts) > TopN
    /\ stats.top_countries[1].n > stats.top_countries[2].n
    /\ \E c \in Names(doc) :
         /\ \A j \in 1..TopN : stats.top_countries[j].country # c
         /\ Aggregate(doc, c) = stats.top_countries[TopN].n

====
